---------------------------- MODULE Spec2Model ----------------------------
(***************************************************************************)
(* A model of the retrieval pipeline of teamloophr/voiceloop: the three    *)
(* chunkers, the ChromaDB-backed RAGService (voiceloop-backend), the       *)
(* Supabase-backed RAGService with its upload route (Building AI           *)
(* Summarization and Unified Calendar Backend) and the upload pipeline of  *)
(* the file upload service (File Uploads and Intelligent Processing).      *)
(*                                                                         *)
(* Text is a sequence of one-character strings.  Python's 0-based,         *)
(* half-open slices are kept as they are; only the access into the TLA+    *)
(* sequence adds 1.                                                        *)
(***************************************************************************)
EXTENDS Integers, Sequences, FiniteSets, TLC

VARIABLES
    ck,                  \* file_upload.chunk_text: the locals of one call
    cc,                  \* RAGService._chunk_content (Supabase): one call and its result
    rg,                  \* RAGService.chunk_text (ChromaDB): one call and its result
    collection,          \* ChromaDB collection "voiceloop_knowledge": its rows
    knowledge_documents, \* Supabase table knowledge_documents
    content_chunks,      \* Supabase table content_chunks
    documents,           \* SupabaseRAG table documents (file upload service)
    document_chunks,     \* SupabaseRAG table document_chunks
    svc,                 \* the service running: its configuration and its callers' inputs
    next_uuid,           \* uuid.uuid4(): the next fresh identifier
    proc,                \* concurrent process_document calls: the locals of each
    last                 \* the last call: its arguments and what it returned

upload_tables == <<documents, document_chunks>>

vars == <<ck, cc, rg, collection, knowledge_documents, content_chunks, upload_tables,
          svc, next_uuid, proc, last>>

(***************************************************************************)
(* Bounds of the model.                                                    *)
(***************************************************************************)
MaxTextLen == 5     \* longest text given to the windowed chunkers
MaxChunkSize == 4   \* largest chunk_size given to the windowed chunkers
MaxChunks == 6      \* passes of the chunk_text loop that are followed
MaxDocs == 2        \* documents ingested in one behaviour
MaxTopK == 3        \* largest top_k / limit of a search

(***************************************************************************)
(* Python string primitives.                                               *)
(***************************************************************************)
Min(a, b) == IF a <= b THEN a ELSE b
Max(a, b) == IF a >= b THEN a ELSE b

\* str.isspace() of one character, on the characters the model's texts use.
IsSpace(c) == c \in {" ", "\n", "\t"}

\* A slice index as Python clamps it: negative counts from the end.
ClampIndex(i, n) == IF i < 0 THEN Max(n + i, 0) ELSE Min(i, n)

\* text[lo:hi]
Slice(text, lo, hi) ==
    LET n == Len(text)
        l == ClampIndex(lo, n)
        h == ClampIndex(hi, n)
    IN  IF h <= l THEN <<>> ELSE SubSeq(text, l + 1, h)

\* The 0-based positions text[lo:hi] reads.
SliceRange(text, lo, hi) ==
    LET n == Len(text)
        l == ClampIndex(lo, n)
        h == ClampIndex(hi, n)
    IN  {i \in 0..(n - 1) : l <= i /\ i < h}

\* s.rfind(c): the 0-based index of the last c in s, or -1.
rfind(s, c) ==
    LET hits == {i \in 1..Len(s) : s[i] = c}
    IN  IF hits = {} THEN -1 ELSE (CHOOSE i \in hits : \A j \in hits : j <= i) - 1

\* s.strip(): the leading and the trailing run of whitespace are cut.
strip(s) ==
    LET n == Len(s)
        lead == CHOOSE d \in 0..n :
                    /\ \A e \in 1..d : IsSpace(s[e])
                    /\ (d = n \/ ~IsSpace(s[d + 1]))
        trail == CHOOSE d \in 0..n :
                    /\ \A e \in 1..d : IsSpace(s[n + 1 - e])
                    /\ (d = n \/ ~IsSpace(s[n - d]))
    IN  IF lead = n THEN <<>> ELSE SubSeq(s, lead + 1, n - trail)

\* A variant of one pass of chunk_text whose window is one character too wide.
chunk_text_body_wide(text, chunk_size, overlap, st) ==
    LET start0 == st.start
        end0 == start0 + chunk_size + 1
        chunk0 == Slice(text, start0, end0)
        break_point == Max(rfind(chunk0, "."), rfind(chunk0, "\n"))
        brk == end0 < Len(text) /\ break_point > start0 + (chunk_size \div 2)
        chunk == IF brk THEN Slice(text, start0, break_point + 1) ELSE chunk0
        end == IF brk THEN break_point + 1 ELSE end0
        start1 == end - overlap
    IN  [start  |-> start1,
         chunks |-> Append(st.chunks, strip(chunk)),
         ranges |-> Append(st.ranges, <<start0, end>>),
         pc     |-> IF start1 >= Len(text) THEN "done" ELSE "loop"]

(***************************************************************************)
(* file_upload.chunk_text(text, chunk_size, overlap): one pass of the      *)
(* while loop.  st holds the locals start and chunks; ranges records the   *)
(* slice [start, end) each chunk was cut from.                             *)
(***************************************************************************)
chunk_text_body(text, chunk_size, overlap, st) ==
    LET start0 == st.start
        end0 == start0 + chunk_size
        chunk0 == Slice(text, start0, end0)
        break_point == Max(rfind(chunk0, "."), rfind(chunk0, "\n"))
        brk == end0 < Len(text) /\ break_point > start0 + (chunk_size \div 2)
        chunk == IF brk THEN Slice(text, start0, break_point + 1) ELSE chunk0
        end == IF brk THEN break_point + 1 ELSE end0
        start1 == end - overlap
    IN  [start  |-> start1,
         chunks |-> Append(st.chunks, strip(chunk)),
         ranges |-> Append(st.ranges, <<start0, end>>),
         pc     |-> IF start1 >= Len(text) THEN "done" ELSE "loop"]

\* The locals on entry: start = 0, chunks = [], and the first loop test.
chunk_text_entry(text) ==
    [start |-> 0, chunks |-> <<>>, ranges |-> <<>>,
     pc |-> IF 0 < Len(text) THEN "loop" ELSE "done"]


(***************************************************************************)
(* RAGService._chunk_content(content) of the Supabase service: fixed-size  *)
(* windows of self.chunk_size that step by chunk_size - chunk_overlap.     *)
(* No strip, no boundary search.                                           *)
(***************************************************************************)
RECURSIVE chunk_content_loop(_, _, _, _, _)
chunk_content_loop(content, chunk_size, chunk_overlap, start, chunks) ==
    IF ~(start < Len(content)) THEN chunks
    ELSE LET end == start + chunk_size
             chunk == Slice(content, start, end)
             start1 == end - chunk_overlap
         IN  IF start1 >= Len(content) THEN Append(chunks, chunk)
             ELSE chunk_content_loop(content, chunk_size, chunk_overlap, start1,
                                     Append(chunks, chunk))

chunk_content(content, chunk_size, chunk_overlap) ==
    chunk_content_loop(content, chunk_size, chunk_overlap, 0, <<>>)

(***************************************************************************)
(* Splitting.  A span is <<first, last>>, 1-based and inclusive; the       *)
(* pieces of a text are what lies between consecutive spans, as            *)
(* str.split and re.split return them (empty pieces included).            *)
(***************************************************************************)
RECURSIVE SumRange(_, _, _)
SumRange(f, lo, hi) ==
    IF lo > hi THEN 0
    ELSE IF lo = hi THEN f[lo]
    ELSE LET mid == (lo + hi) \div 2
         IN  SumRange(f, lo, mid) + SumRange(f, mid + 1, hi)

RECURSIVE ConcatRange(_, _, _)
ConcatRange(f, lo, hi) ==
    IF lo > hi THEN <<>>
    ELSE IF lo = hi THEN f[lo]
    ELSE LET mid == (lo + hi) \div 2
         IN  ConcatRange(f, lo, mid) \o ConcatRange(f, mid + 1, hi)

\* The total of f before each index: RunningFrom(f, 1, Len(f), 0)[k] is
\* f[1] + ... + f[k - 1].
RECURSIVE RunningFrom(_, _, _, _)
RunningFrom(f, lo, hi, base) ==
    IF lo > hi THEN <<>>
    ELSE IF lo = hi THEN <<base>>
    ELSE LET mid == (lo + hi) \div 2
         IN  RunningFrom(f, lo, mid, base)
             \o RunningFrom(f, mid + 1, hi, base + SumRange(f, lo, mid))

Pieces(text, spans) ==
    [k \in 1..(Len(spans) + 1) |->
        SubSeq(text,
               IF k = 1 THEN 1 ELSE spans[k - 1][2] + 1,
               IF k <= Len(spans) THEN spans[k][1] - 1 ELSE Len(text))]

\* text.split('\n\n'): matches are taken left to right and do not overlap, so
\* inside a run of newlines a match starts at every second position.
split_paragraphs(text) ==
    LET n == Len(text)
        NewlinesBefore(i) == CHOOSE d \in 0..(i - 1) :
                                /\ \A e \in 1..d : text[i - e] = "\n"
                                /\ (d = i - 1 \/ text[i - d - 1] # "\n")
        IsMatch(i) == /\ i < n
                      /\ text[i] = "\n"
                      /\ text[i + 1] = "\n"
                      /\ NewlinesBefore(i) % 2 = 0
        starts == SelectSeq([i \in 1..n |-> i], IsMatch)
    IN  Pieces(text, [k \in 1..Len(starts) |-> <<starts[k], starts[k] + 1>>])

\* re.split(r'[.!?]+', paragraph): the separators are the maximal runs of
\* sentence punctuation.
IsSentenceEnd(c) == c \in {".", "!", "?"}

split_sentences(paragraph) ==
    LET n == Len(paragraph)
        IsRunStart(i) == /\ IsSentenceEnd(paragraph[i])
                         /\ (i = 1 \/ ~IsSentenceEnd(paragraph[i - 1]))
        RunEnd(i) == CHOOSE j \in i..n :
                        /\ \A k \in i..j : IsSentenceEnd(paragraph[k])
                        /\ (j = n \/ ~IsSentenceEnd(paragraph[j + 1]))
        starts == SelectSeq([i \in 1..n |-> i], IsRunStart)
    IN  Pieces(paragraph, [k \in 1..Len(starts) |-> <<starts[k], RunEnd(starts[k])>>])

(***************************************************************************)
(* RAGService.chunk_text(text, metadata) of the ChromaDB service.          *)
(***************************************************************************)
ParagraphLimit == 1000
SentenceMin == 100

\* The sentence loop of one long (stripped) paragraph; sentence_start begins
\* at current_position and moves by len(sentence.strip()) + 1 per sentence.
sentence_chunks(paragraph, current_position) ==
    LET sentences == split_sentences(paragraph)
        stripped == [k \in 1..Len(sentences) |-> strip(sentences[k])]
        advance == [k \in 1..Len(sentences) |-> Len(stripped[k]) + 1]
        before == RunningFrom(advance, 1, Len(sentences), 0)
        sentence_start(k) == current_position + before[k]
        emit == [k \in 1..Len(sentences) |->
                    IF Len(stripped[k]) > SentenceMin
                    THEN <<[text  |-> stripped[k],
                            start |-> sentence_start(k),
                            end   |-> sentence_start(k) + Len(stripped[k]),
                            type  |-> "sentence"]>>
                    ELSE <<>>]
    IN  ConcatRange(emit, 1, Len(sentences))

\* A variant of chunk_text that leaves current_position where it was after a
\* paragraph split by sentences.
rag_chunk_text_stalled(text) ==
    LET paragraphs == split_paragraphs(text)
        stripped == [k \in 1..Len(paragraphs) |-> strip(paragraphs[k])]
        advance == [k \in 1..Len(paragraphs) |->
                       IF Len(stripped[k]) > ParagraphLimit THEN 0
                       ELSE Len(stripped[k]) + 2]
        before == RunningFrom(advance, 1, Len(paragraphs), 0)
        emit == [k \in 1..Len(paragraphs) |->
                    IF stripped[k] = <<>> THEN <<>>
                    ELSE IF Len(stripped[k]) > ParagraphLimit
                    THEN sentence_chunks(stripped[k], before[k])
                    ELSE <<[text  |-> stripped[k],
                            start |-> before[k],
                            end   |-> before[k] + Len(stripped[k]),
                            type  |-> "paragraph"]>>]
    IN  ConcatRange(emit, 1, Len(paragraphs))

rag_chunk_text(text) ==
    LET paragraphs == split_paragraphs(text)
        stripped == [k \in 1..Len(paragraphs) |-> strip(paragraphs[k])]
        advance == [k \in 1..Len(paragraphs) |-> Len(stripped[k]) + 2]
        before == RunningFrom(advance, 1, Len(paragraphs), 0)
        current_position(k) == before[k]
        emit == [k \in 1..Len(paragraphs) |->
                    IF stripped[k] = <<>> THEN <<>>
                    ELSE IF Len(stripped[k]) > ParagraphLimit
                    THEN sentence_chunks(stripped[k], current_position(k))
                    ELSE <<[text  |-> stripped[k],
                            start |-> current_position(k),
                            end   |-> current_position(k) + Len(stripped[k]),
                            type  |-> "paragraph"]>>]
    IN  ConcatRange(emit, 1, Len(paragraphs))


(***************************************************************************)
(* Inputs.                                                                 *)
(***************************************************************************)
Alphabet == {"a", ".", " ", "\n"}

TextsUpTo(n) == UNION {[1..k -> Alphabet] : k \in 0..n}

Rep(c, n) == [i \in 1..n |-> c]

\* Texts for RAGService.chunk_text are built from blocks, so that paragraphs
\* and sentences on both sides of the two length thresholds occur.
MaxBlocks == 3

Blocks ==
    {<<"a">>, <<" ">>, <<".">>, <<"\n", "\n">>,
     Rep("a", SentenceMin + 1), Rep("a", ParagraphLimit)}

RECURSIVE BlockTexts(_)
BlockTexts(n) ==
    IF n = 0 THEN {<<>>}
    ELSE LET shorter == BlockTexts(n - 1)
         IN  shorter \cup {t \o b : t \in shorter, b \in Blocks}

RagTexts == BlockTexts(MaxBlocks)

(***************************************************************************)
(* The embedding models (SentenceTransformer all-MiniLM-L6-v2 for the      *)
(* query, the collection's embedding function for documents and query      *)
(* texts) are collaborators.  Only the cosine distance between two texts   *)
(* is modelled, in thousandths: 0 for the same text, below 1 for texts     *)
(* that share a character, above 1 for texts that share none.              *)
(***************************************************************************)
Chars(text) == {text[i] : i \in 1..Len(text)}

Distance(query_text, document) ==
    IF query_text = document THEN 0
    ELSE IF Chars(query_text) \cap Chars(document) # {} THEN 400
    ELSE 1200

(***************************************************************************)
(* The ChromaDB collection.  A row is [id, document, metadata]; id is      *)
(* <<doc_id, i>> for the string f"{doc_id}_chunk_{i}".                     *)
(***************************************************************************)
Users == {"A", "B"}

NoFilters == <<>>

\* where=...: every key of the filter must equal the row's metadata value.
Matches(row, where) ==
    \A k \in DOMAIN where : k \in DOMAIN row.metadata /\ row.metadata[k] = where[k]

\* Rows are ranked by distance; rows at the same distance keep insertion order.
Before(query_text, r1, r2) ==
    LET d1 == Distance(query_text, r1.document)
        d2 == Distance(query_text, r2.document)
    IN  \/ d1 < d2
        \/ d1 = d2 /\ r1.id[1] < r2.id[1]
        \/ d1 = d2 /\ r1.id[1] = r2.id[1] /\ r1.id[2] < r2.id[2]

\* An upper bound of a set of naturals, and the least t of lo..hi with at
\* least m members of S up to t.
RECURSIVE UpperBound(_, _)
UpperBound(S, t) == IF \A i \in S : i <= t THEN t ELSE UpperBound(S, 2 * t + 1)

RECURSIVE CutAt(_, _, _, _)
CutAt(S, m, lo, hi) ==
    IF lo >= hi THEN lo
    ELSE LET mid == (lo + hi) \div 2
         IN  IF Cardinality({i \in S : i <= mid}) >= m
             THEN CutAt(S, m, lo, mid)
             ELSE CutAt(S, m, mid + 1, hi)

\* The rank of a row, in the order of Before, packed into one number.
Rank(query_text, r, doc_span, index_span) ==
    (Distance(query_text, r.document) * doc_span + r.id[1]) * index_span + r.id[2]

RankCut(ranks, n_results) == CutAt(ranks, n_results, 0, UpperBound(ranks, 0))

RankedUpTo(kept, query_text, doc_span, index_span, cut) ==
    {r \in kept : Rank(query_text, r, doc_span, index_span) <= cut}

NearestRanked(kept, query_text, n_results, doc_span, index_span) ==
    IF Cardinality(kept) <= n_results THEN kept
    ELSE IF n_results <= 0 THEN {}
    ELSE RankedUpTo(kept, query_text, doc_span, index_span,
                    RankCut({Rank(query_text, q, doc_span, index_span) : q \in kept},
                            n_results))

NearestKept(kept, query_text, n_results) ==
    NearestRanked(kept, query_text, n_results,
                  UpperBound({r.id[1] : r \in kept}, 0) + 1,
                  UpperBound({r.id[2] : r \in kept}, 0) + 1)

\* The n_results nearest rows among those the filter keeps: the filter is
\* applied before ranking.
Nearest(rows, query_text, n_results, where) ==
    NearestKept({r \in rows : Matches(r, where)}, query_text, n_results)

NearestFirst(near, query_text) ==
    [k \in 1..Cardinality(near) |->
        LET r == CHOOSE r \in near :
                    Cardinality({q \in near : Before(query_text, q, r)}) = k - 1
        IN  [id |-> r.id, document |-> r.document, metadata |-> r.metadata,
             distance |-> Distance(query_text, r.document)]]

\* collection.query(...): ids, documents, metadatas and distances of the
\* nearest rows, nearest first.  ChromaDB rejects n_results <= 0.
collection_query(rows, query_text, n_results, where) ==
    NearestFirst(Nearest(rows, query_text, n_results, where), query_text)

(***************************************************************************)
(* ChromaDB RAGService: search.                                            *)
(***************************************************************************)
\* re.findall(r'\b\w+\b', query.lower()): the maximal runs of word characters.
IsWordChar(c) == c \in {"a", "b", "c", "x", "y", "t", "h", "e", "A", "B", "C", "X", "Y", "T", "H", "E"}

lower(c) ==
    CASE c = "A" -> "a" [] c = "B" -> "b" [] c = "C" -> "c" [] c = "X" -> "x"
      [] c = "Y" -> "y" [] c = "T" -> "t" [] c = "H" -> "h" [] c = "E" -> "e"
      [] OTHER -> c

word_tokens(query) ==
    LET n == Len(query)
        IsStart(i) == IsWordChar(query[i]) /\ (i = 1 \/ ~IsWordChar(query[i - 1]))
        WordEnd(i) == CHOOSE j \in i..n :
                         /\ \A k \in i..j : IsWordChar(query[k])
                         /\ (j = n \/ ~IsWordChar(query[j + 1]))
        starts == SelectSeq([i \in 1..n |-> i], IsStart)
    IN  [k \in 1..Len(starts) |->
            [i \in 1..(WordEnd(starts[k]) - starts[k] + 1) |->
                lower(query[starts[k] + i - 1])]]

stop_words ==
    {<<"t", "h", "e">>, <<"a">>, <<"a", "n">>, <<"a", "n", "d">>, <<"o", "r">>,
     <<"b", "u", "t">>, <<"i", "n">>, <<"o", "n">>, <<"a", "t">>, <<"t", "o">>,
     <<"f", "o", "r">>, <<"o", "f">>, <<"w", "i", "t", "h">>, <<"b", "y">>}

KeyTermLimit == 5

extract_key_terms(query) ==
    LET IsKey(term) == term \notin stop_words /\ Len(term) > 2
    IN  Slice(SelectSeq(word_tokens(query), IsKey), 0, KeyTermLimit)

\* _format_chroma_results: 'id' is the metadata's document_id, and a distance
\* of 0 is falsy, so an exact match scores 0.5.
format_chroma_results(chroma_results) ==
    [i \in 1..Len(chroma_results) |->
        LET r == chroma_results[i]
        IN  [id |-> r.metadata.document_id,
             text |-> r.document,
             metadata |-> r.metadata,
             relevance_score |-> IF r.distance # 0 THEN 1000 - r.distance ELSE 500,
             chunk_index |-> r.metadata.chunk_index]]

\* _semantic_search: a failing query is caught and gives [].
ch_semantic_search(rows, query, filters, top_k, fails) ==
    IF fails \/ top_k <= 0 THEN <<>>
    ELSE format_chroma_results(collection_query(rows, query, top_k, filters))

\* _keyword_search: query_texts=key_terms, and only the results of the first
\* query text are formatted; no key term, or a failing query, gives [].
keyword_query(rows, key_terms, filters, top_k) ==
    IF key_terms = <<>> THEN <<>>
    ELSE format_chroma_results(collection_query(rows, key_terms[1], top_k, filters))

ch_keyword_search(rows, query, filters, top_k, fails) ==
    IF fails \/ top_k <= 0 THEN <<>>
    ELSE keyword_query(rows, extract_key_terms(query), filters, top_k)

\* _deduplicate_results without the seen_ids test.
deduplicate_results_keeping_all(results) == results

\* _deduplicate_results: the first result of each 'id' is kept.
deduplicate_results(results) ==
    LET First(i) == \A j \in 1..(i - 1) : results[j].id # results[i].id
        keep == SelectSeq([i \in 1..Len(results) |-> i], First)
    IN  [k \in 1..Len(keep) |-> results[keep[k]]]

\* _rerank_results: 0.4 * relevance_score, a length bonus for texts over 100
\* characters, 0.1 for chunks younger than 30 days and 0.1 when the chunk's
\* category occurs in the lowercased query; list.sort is stable.  Scores are
\* in thousandths, days_old is (now - created_timestamp).days.
LengthBonusMin == 100
RecencyDays == 30

lower_text(text) == [i \in 1..Len(text) |-> lower(text[i])]

IsSubstring(sub, text) ==
    \E i \in 0..(Len(text) - Len(sub)) : SubSeq(text, i + 1, i + Len(sub)) = sub

final_score(query, result, now) ==
    (result.relevance_score * 4) \div 10
    + (IF Len(result.text) > LengthBonusMin THEN Min(200, Len(result.text)) ELSE 0)
    + (IF now - result.metadata.created_timestamp < RecencyDays THEN 100 ELSE 0)
    + (IF IsSubstring(lower_text(result.metadata.category), lower_text(query))
       THEN 100 ELSE 0)

\* list.sort(key=..., reverse=True): descending, equal keys keep their order.
SortedDescending(results, keys) ==
    [k \in 1..Len(results) |->
        results[CHOOSE i \in 1..Len(results) :
                   Cardinality({j \in 1..Len(results) :
                                   \/ keys[j] > keys[i]
                                   \/ keys[j] = keys[i] /\ j < i}) = k - 1]]

with_final_score(query, results, now) ==
    [i \in 1..Len(results) |->
        [k \in DOMAIN results[i] \cup {"final_score"} |->
            IF k = "final_score" THEN final_score(query, results[i], now)
            ELSE results[i][k]]]

sort_by_final_score(results) ==
    SortedDescending(results, [i \in 1..Len(results) |-> results[i].final_score])

rerank_results(query, results, now) ==
    sort_by_final_score(with_final_score(query, results, now))

\* _hybrid_search: top_k // 2 from each search, one result per 'id', then
\* the reranked list cut to top_k.
hybrid_merge(query, semantic_results, keyword_results, top_k, now) ==
    Slice(rerank_results(query,
                         deduplicate_results(semantic_results \o keyword_results),
                         now),
          0, top_k)

ch_hybrid_search(rows, query, filters, top_k, fault, now) ==
    hybrid_merge(query,
                 ch_semantic_search(rows, query, filters, top_k \div 2,
                                    fault \in {"vector", "both"}),
                 ch_keyword_search(rows, query, filters, top_k \div 2,
                                   fault \in {"keyword", "both"}),
                 top_k, now)

\* _enhance_search_results: the completion call may raise (ai = "raise"),
\* answer with text that is no JSON (ai = "unparsable") or with JSON
\* (ai = "ok"); ai_analysis is attached only when the call returned.
enhance_result(result, analysis) ==
    [k \in DOMAIN result \cup {"ai_analysis"} |->
        IF k = "ai_analysis" THEN analysis ELSE result[k]]

\* _enhance_search_results with an except branch that returns [].
ch_enhance_search_results_dropping(query, results, ai) ==
    IF results = <<>> \/ ai # "ok" THEN <<>>
    ELSE [i \in 1..Len(results) |-> enhance_result(results[i], "analysis_data")]

ch_enhance_search_results(query, results, ai) ==
    IF results = <<>> THEN results
    ELSE IF ai = "raise" THEN results
    ELSE [i \in 1..Len(results) |->
            enhance_result(results[i], IF ai = "ok" THEN "analysis_data" ELSE "raw_response")]

\* The filter search() builds: user_id first, then the caller's filters over it.
search_filters(user_id, filters) ==
    IF filters = NoFilters THEN [user_id |-> user_id]
    ELSE filters @@ [user_id |-> user_id]

\* search(): everything is inside one try; a failing encode() gives [].
\* ch_search_results is the list handed to _enhance_search_results.
ch_search_results(rows, query, user_id, filters, top_k, search_type, fault, now) ==
    LET where == search_filters(user_id, filters)
    IN  IF search_type = "semantic"
        THEN ch_semantic_search(rows, query, where, top_k, fault \in {"vector", "both"})
        ELSE IF search_type = "keyword"
        THEN ch_keyword_search(rows, query, where, top_k, fault \in {"keyword", "both"})
        ELSE IF search_type = "hybrid"
        THEN ch_hybrid_search(rows, query, where, top_k, fault, now)
        ELSE ch_semantic_search(rows, query, where, top_k, fault \in {"vector", "both"})

ch_search(rows, query, user_id, filters, top_k, search_type, fault, ai, now) ==
    IF fault = "encode" THEN <<>>
    ELSE ch_enhance_search_results(
             query,
             ch_search_results(rows, query, user_id, filters, top_k, search_type, fault, now),
             ai)

\* delete_document looks the chunks up with query_texts=[""], n_results=1000
\* and where={document_id, user_id}, then deletes the ids it found.
DeleteQueryLimit == 1000

ch_delete_found(rows, document_id, user_id) ==
    Nearest(rows, <<>>, DeleteQueryLimit, [document_id |-> document_id, user_id |-> user_id])

\* The rows process_document adds for one document.  metadata is {} here, so
\* category is the default 'general'; created_timestamp is the day of the call.
DefaultCategory == <<"g", "e", "n", "e", "r", "a", "l">>

ch_document_rows(doc_id, document_text, user_id, today) ==
    LET chunks == rag_chunk_text(document_text)
    IN  {[id |-> <<doc_id, i - 1>>,
          document |-> chunks[i].text,
          metadata |-> [document_id |-> doc_id,
                        user_id |-> user_id,
                        chunk_index |-> i - 1,
                        start_position |-> chunks[i].start,
                        end_position |-> chunks[i].end,
                        chunk_type |-> chunks[i].type,
                        category |-> DefaultCategory,
                        created_timestamp |-> today]] : i \in 1..Len(chunks)}

(***************************************************************************)
(* Supabase RAGService.  A knowledge_documents row is [id, user_id,        *)
(* content]; a content_chunks row is [id, document_id, chunk_index,        *)
(* content, embedding] with id <<doc_id, i>> for its own uuid4.  A filter on *)
(* a column the rows do not carry selects nothing (or is refused by the    *)
(* database, which the callers turn into [] as well).                      *)
(***************************************************************************)
\* _generate_embedding(text).  The vector is known by where it came from:
\* the provider's answer for the text, or the fallback list
\* [hash(text) % 1000] * 1536.  Both are plain lists; api_key is
\* openai.api_key as set in __init__, fails says the provider call raises.
openai_embedding(text) == [source |-> "openai", input |-> text]

hash_embedding(text) == [source |-> "hash", input |-> text]

generate_embedding(text, api_key, fails) ==
    IF ~api_key THEN hash_embedding(text)
    ELSE IF fails THEN hash_embedding(text)
    ELSE openai_embedding(text)

table_eq(rows, column, value) ==
    {r \in rows : column \in DOMAIN r /\ r[column] = value}

\* select('*')...limit(n): the first n rows, in insertion order.
Earlier(r1, r2) ==
    \/ r1.id[1] < r2.id[1]
    \/ r1.id[1] = r2.id[1] /\ r1.id[2] < r2.id[2]

InOrder(rows) ==
    [k \in 1..Cardinality(rows) |->
        CHOOSE r \in rows : Cardinality({q \in rows : Earlier(q, r)}) = k - 1]

table_limit(rows, n) == Slice(InOrder(rows), 0, Max(n, 0))

sb_results(data, similarity_score) ==
    [i \in 1..Len(data) |->
        [id |-> data[i].id, content |-> data[i].content,
         chunk_index |-> data[i].chunk_index, similarity_score |-> similarity_score]]

\* _semantic_search: content_chunks filtered by user_id, every row scored 0.8.
sb_semantic_search(chunks, query, user_id, limit, fails) ==
    IF fails THEN <<>>
    ELSE sb_results(table_limit(table_eq(chunks, "user_id", user_id), limit), 800)

\* _keyword_search: the same rows, kept when they contain the query, scored 0.7.
sb_keyword_search(chunks, query, user_id, limit, fails) ==
    IF fails THEN <<>>
    ELSE LET Hit(chunk) == IsSubstring(lower_text(query), lower_text(chunk.content))
         IN  Slice(sb_results(SelectSeq(table_limit(table_eq(chunks, "user_id", user_id),
                                                    limit),
                                        Hit),
                              700),
                   0, limit)

\* _hybrid_search: limit // 2 from each, the first of each chunk id kept,
\* sorted by similarity_score, cut to limit.
sort_by_similarity_score(results) ==
    SortedDescending(results, [i \in 1..Len(results) |-> results[i].similarity_score])

unique_results(combined_results) ==
    LET Unseen(i) == \A j \in 1..(i - 1) : combined_results[j].id # combined_results[i].id
    IN  [k \in 1..Cardinality({i \in 1..Len(combined_results) : Unseen(i)}) |->
            combined_results[CHOOSE i \in 1..Len(combined_results) :
                /\ Unseen(i)
                /\ Cardinality({j \in 1..(i - 1) : Unseen(j)}) = k - 1]]

sb_hybrid_search(chunks, query, user_id, limit, fault) ==
    Slice(sort_by_similarity_score(
              unique_results(
                  sb_semantic_search(chunks, query, user_id, limit \div 2,
                                     fault \in {"vector", "both"})
                  \o sb_keyword_search(chunks, query, user_id, limit \div 2,
                                       fault \in {"keyword", "both"}))),
          0, limit)

sb_search(chunks, query, user_id, search_type, limit, fault) ==
    IF search_type = "semantic"
    THEN sb_semantic_search(chunks, query, user_id, limit, fault \in {"vector", "both"})
    ELSE IF search_type = "keyword"
    THEN sb_keyword_search(chunks, query, user_id, limit, fault \in {"keyword", "both"})
    ELSE sb_hybrid_search(chunks, query, user_id, limit, fault)

\* enhance_search_results: used by the route when enhance_results is set
\* (ai # "none"); nothing to do for no results, and a failing completion
\* call gives the results back as they were.
sb_enhance_search_results(query, results, ai) ==
    IF results = <<>> \/ ai = "raise" THEN results
    ELSE [i \in 1..Len(results) |->
            [k \in DOMAIN results[i] \cup {"ai_insights"} |->
                IF k = "ai_insights" THEN "ai_insights" ELSE results[i][k]]]

(***************************************************************************)
(* The two services as calls.  svc.backend says which application runs:    *)
(* "chroma" is voiceloop-backend, "supabase" the unified backend with its  *)
(* CHUNK_SIZE and CHUNK_OVERLAPS settings.  A call is made when no call is *)
(* pending (last.op = "none"); it records its arguments, what it returned  *)
(* (ret) and, for a search, the body the route answers with (response);    *)
(* Return hands the result back.  uuid4 values are drawn from next_uuid.   *)
(***************************************************************************)
DocTexts == {<<"a", "b", "c">>, <<"x", "y", "\n", "\n", "a", "b", "c">>}

Queries == {<<"a", "b", "c">>, <<"x", "y">>}

\* <<CHUNK_SIZE, CHUNK_OVERLAPS>> settings of the unified backend.
SvcConfigs == {<<1, 0>>, <<2, 0>>, <<2, 1>>}

SearchTypes == {"semantic", "keyword", "hybrid"}

\* A search call with what goes wrong in it: the vector query, the keyword
\* query, both, or encode(); or, with the queries working, an augmentation
\* that raises or answers with something that is no JSON.
SearchFaults ==
    {<<fault, "ok">> : fault \in {"none", "vector", "keyword", "both", "encode"}}
        \cup {<<"none", ai>> : ai \in {"unparsable", "raise"}}

SearchDays == {0, RecencyDays}

ch_process_document ==
    /\ svc.backend = "chroma"
    /\ last.op = "none"
    /\ next_uuid <= MaxDocs
    /\ \E user_id \in Users, document_text \in svc.texts :
          /\ collection' = collection \cup ch_document_rows(next_uuid, document_text, user_id, 0)
          /\ last' = [op |-> "ch_process_document", user_id |-> user_id,
                      document_text |-> document_text, ret |-> next_uuid]
    /\ next_uuid' = next_uuid + 1
    /\ UNCHANGED <<upload_tables, proc, ck, cc, rg, knowledge_documents, content_chunks, svc>>

ch_search_call ==
    /\ svc.backend = "chroma"
    /\ last.op = "none"
    /\ \E query \in svc.queries, user_id \in Users, top_k \in 0..svc.max_top_k,
          filters \in {NoFilters} \cup {[user_id |-> u] : u \in Users},
          search_type \in SearchTypes, f \in SearchFaults, now \in SearchDays :
          LET ret == ch_search(collection, query, user_id, filters, top_k, search_type,
                               f[1], f[2], now)
          IN  last' = [op |-> "ch_search", query |-> query, user_id |-> user_id,
                       filters |-> filters, top_k |-> top_k, search_type |-> search_type,
                       fault |-> f[1], ai |-> f[2], now |-> now, ret |-> ret,
                       response |-> [results |-> ret, query |-> query]]
    /\ UNCHANGED <<upload_tables, proc, ck, cc, rg, collection, knowledge_documents, content_chunks, svc,
                   next_uuid>>

\* delete_document: a failing query, or a query that finds no id (the client
\* refuses a delete without ids), returns False with nothing deleted.
ch_delete_document ==
    /\ svc.backend = "chroma"
    /\ last.op = "none"
    /\ \E document_id \in 1..MaxDocs, user_id \in Users, fault \in {"none", "query"} :
          LET found == IF fault = "query" THEN {}
                       ELSE ch_delete_found(collection, document_id, user_id)
          IN  /\ collection' = collection \ found
              /\ last' = [op |-> "ch_delete_document", document_id |-> document_id,
                          user_id |-> user_id, fault |-> fault, ret |-> (found # {})]
    /\ UNCHANGED <<upload_tables, proc, ck, cc, rg, knowledge_documents, content_chunks, svc, next_uuid>>

\* process_document: the document row, then one insert per chunk; the first
\* failing insert ends the call with False and leaves what was inserted.
\* fail_at is the insert that fails: -1 for the document row, a chunk index,
\* or Len(chunks) for none; inserts and the embedding provider fail only
\* where svc.insert_faults says they may (provider_fails: the provider calls
\* of this ingestion raise).  An id that reached no table is not counted as
\* drawn.
sb_store(doc_id, user_id, content, chunks, fail_at, provider_fails) ==
    /\ knowledge_documents' =
           IF fail_at = -1 THEN knowledge_documents
           ELSE knowledge_documents
                   \cup {[id |-> doc_id, user_id |-> user_id, content |-> content]}
    /\ content_chunks' = content_chunks
           \cup {[id |-> <<doc_id, i - 1>>, document_id |-> doc_id,
                  chunk_index |-> i - 1, content |-> chunks[i],
                  embedding |-> generate_embedding(chunks[i], svc.api_key,
                                                   provider_fails)] :
                    i \in 1..Max(fail_at, 0)}

sb_process_document ==
    /\ svc.backend = "supabase"
    /\ last.op = "none"
    /\ next_uuid <= MaxDocs
    /\ \E user_id \in Users, content \in svc.texts :
          LET doc_id == next_uuid
              chunks == chunk_content(content, svc.chunk_size, svc.chunk_overlap)
          IN  \E fail_at \in (IF svc.insert_faults THEN (-1)..Len(chunks)
                                ELSE {Len(chunks)}),
                    provider_fails \in (IF svc.insert_faults THEN BOOLEAN ELSE {FALSE}) :
                 /\ sb_store(doc_id, user_id, content, chunks, fail_at, provider_fails)
                 /\ last' = [op |-> "sb_process_document", user_id |-> user_id,
                             content |-> content, fail_at |-> fail_at,
                             provider_fails |-> provider_fails,
                             doc_id |-> doc_id, ret |-> (fail_at = Len(chunks))]
                 /\ next_uuid' = IF fail_at = -1 THEN next_uuid ELSE next_uuid + 1
    /\ UNCHANGED <<upload_tables, proc, ck, cc, rg, collection, svc>>

\* The /api/upload/decision route with decision 'save': three identifiers
\* are drawn, the one passed to process_document, the one process_document
\* gives the document row, and the one of the response.  What
\* process_document returns is not looked at.
upload_decision ==
    /\ svc.backend = "supabase"
    /\ last.op = "none"
    /\ next_uuid <= MaxDocs
    /\ \E user_id \in Users, content \in svc.texts :
          LET passed_id == next_uuid
              doc_id == next_uuid + 1
              response_id == next_uuid + 2
              chunks == chunk_content(content, svc.chunk_size, svc.chunk_overlap)
          IN  \E fail_at \in (IF svc.insert_faults THEN (-1)..Len(chunks)
                                ELSE {Len(chunks)}),
                    provider_fails \in (IF svc.insert_faults THEN BOOLEAN ELSE {FALSE}) :
                 /\ sb_store(doc_id, user_id, content, chunks, fail_at, provider_fails)
                 /\ last' = [op |-> "upload_decision", user_id |-> user_id,
                             content |-> content, fail_at |-> fail_at,
                             provider_fails |-> provider_fails,
                             passed_id |-> passed_id, doc_id |-> doc_id,
                             ret |-> [success |-> TRUE, document_id |-> response_id]]
                 /\ next_uuid' = next_uuid + 3
    /\ UNCHANGED <<upload_tables, proc, ck, cc, rg, collection, svc>>

\* The /api/rag/search route: search(), then enhance_search_results() when
\* enhance_results was asked for (ai # "none").
sb_search_call ==
    /\ svc.backend = "supabase"
    /\ last.op = "none"
    /\ \E query \in Queries, user_id \in Users, limit \in 0..MaxTopK,
          search_type \in SearchTypes,
          f \in {<<fault, "none">> : fault \in {"none", "vector", "keyword", "both"}}
                   \cup {<<"none", ai>> : ai \in {"ok", "raise"}} :
          LET results == sb_search(content_chunks, query, user_id, search_type, limit, f[1])
              ret == IF f[2] = "none" THEN results
                     ELSE sb_enhance_search_results(query, results, f[2])
          IN  last' = [op |-> "sb_search", query |-> query, user_id |-> user_id,
                       top_k |-> limit, search_type |-> search_type,
                       fault |-> f[1], ai |-> f[2], ret |-> ret,
                       response |-> [success |-> TRUE, results |-> ret, query |-> query,
                                     search_type |-> search_type,
                                     total_results |-> Len(ret)]]
    /\ UNCHANGED <<upload_tables, proc, ck, cc, rg, collection, knowledge_documents, content_chunks, svc,
                   next_uuid>>

\* delete_document: the chunks of document_id, whoever owns it, then the
\* document row of that id and user; a failing statement ends the call
\* with False and leaves what the earlier statement did.
sb_delete_document ==
    /\ svc.backend = "supabase"
    /\ last.op = "none"
    /\ \E document_id \in 1..MaxDocs, user_id \in Users,
          fault \in {"none", "chunks", "document"} :
          /\ content_chunks' =
                 IF fault = "chunks" THEN content_chunks
                 ELSE content_chunks \ table_eq(content_chunks, "document_id", document_id)
          /\ knowledge_documents' =
                 IF fault # "none" THEN knowledge_documents
                 ELSE knowledge_documents
                         \ table_eq(table_eq(knowledge_documents, "id", document_id),
                                    "user_id", user_id)
          /\ last' = [op |-> "sb_delete_document", document_id |-> document_id,
                      user_id |-> user_id, fault |-> fault, ret |-> (fault = "none")]
    /\ UNCHANGED <<upload_tables, proc, ck, cc, rg, collection, svc, next_uuid>>

Return ==
    /\ last.op # "none"
    /\ last' = [op |-> "none"]
    /\ UNCHANGED <<upload_tables, proc, ck, cc, rg, collection, knowledge_documents, content_chunks, svc,
                   next_uuid>>

(***************************************************************************)
(* The chunkers as calls.  ck steps through the while loop of              *)
(* file_upload.chunk_text one pass at a time (the loop need not end); cc   *)
(* and rg are single calls of the two RAGService chunkers.                 *)
(***************************************************************************)
IdleCall == [pc |-> "idle"]

CkCall(text, chunk_size, overlap) ==
    LET st == chunk_text_entry(text)
    IN  [text |-> text, chunk_size |-> chunk_size, overlap |-> overlap,
         start |-> st.start, chunks |-> st.chunks, ranges |-> st.ranges, pc |-> st.pc]

chunk_text_loop ==
    /\ ck.pc = "loop"
    /\ Len(ck.chunks) < MaxChunks
    /\ LET st == chunk_text_body(ck.text, ck.chunk_size, ck.overlap, ck)
       IN  ck' = [ck EXCEPT !.start = st.start, !.chunks = st.chunks,
                            !.ranges = st.ranges, !.pc = st.pc]
    /\ UNCHANGED <<upload_tables, proc, cc, rg, collection, knowledge_documents, content_chunks, svc,
                   next_uuid, last>>

chunk_content_call ==
    /\ cc.pc = "call"
    /\ cc' = [cc EXCEPT !.pc = "done",
                        !.chunks = chunk_content(cc.content, cc.chunk_size, cc.chunk_overlap)]
    /\ UNCHANGED <<upload_tables, proc, ck, rg, collection, knowledge_documents, content_chunks, svc,
                   next_uuid, last>>

rag_chunk_text_call ==
    /\ rg.pc = "call"
    /\ rg' = [rg EXCEPT !.pc = "done", !.chunks = rag_chunk_text(rg.text)]
    /\ UNCHANGED <<upload_tables, proc, ck, cc, collection, knowledge_documents, content_chunks, svc,
                   next_uuid, last>>

StoreInit ==
    /\ collection = {}
    /\ knowledge_documents = {}
    /\ content_chunks = {}
    /\ documents = {}
    /\ document_chunks = {}
    /\ proc = <<>>
    /\ svc = [backend |-> "none"]
    /\ next_uuid = 1
    /\ last = [op |-> "none"]

\* The two windowed chunkers, on every text up to MaxTextLen and every
\* 0 <= overlap < chunk_size <= MaxChunkSize.
InitChunk ==
    /\ \E text \in TextsUpTo(MaxTextLen), chunk_size \in 1..MaxChunkSize :
         \E overlap \in 0..(chunk_size - 1) :
            /\ ck = CkCall(text, chunk_size, overlap)
            /\ cc = [content |-> text, chunk_size |-> chunk_size,
                     chunk_overlap |-> overlap, chunks |-> <<>>, pc |-> "call"]
    /\ rg = IdleCall
    /\ StoreInit

NextChunk == chunk_text_loop \/ chunk_content_call

\* The two windowed chunkers on texts of letters and sentence ends, with windows
\* wide enough for a boundary to lie past the middle and before the end.
MaxBreakLen == 8    \* longest text of letters and full stops
MaxBreakChunk == 6  \* largest chunk_size given with them

BreakTexts == UNION {[1..k -> {"a", "."}] : k \in 0..MaxBreakLen}

InitBreak ==
    /\ \E text \in BreakTexts, chunk_size \in 1..MaxBreakChunk :
         \E overlap \in 0..(chunk_size - 1) :
            /\ ck = CkCall(text, chunk_size, overlap)
            /\ cc = [content |-> text, chunk_size |-> chunk_size,
                     chunk_overlap |-> overlap, chunks |-> <<>>, pc |-> "call"]
    /\ rg = IdleCall
    /\ StoreInit

NextBreak == chunk_text_loop \/ chunk_content_call

SpecBreak == InitBreak /\ [][NextBreak]_vars

SpecChunk == InitChunk /\ [][NextChunk]_vars

\* RAGService.chunk_text on the block texts.
InitRag ==
    /\ \E text \in RagTexts : rg = [text |-> text, chunks |-> <<>>, pc |-> "call"]
    /\ ck = IdleCall
    /\ cc = IdleCall
    /\ StoreInit

NextRag == rag_chunk_text_call

SpecRag == InitRag /\ [][NextRag]_vars

\* voiceloop-backend ingesting one document of up to MaxParagraphs paragraphs
\* separated by blank lines: a short one, an empty one, one to be stripped,
\* one longer than ParagraphLimit made of two sentences longer than
\* SentenceMin, and one longer than ParagraphLimit that ends in a short
\* sentence.  chunk_text is also called on the document by itself.
MaxParagraphs == 3

Paragraphs ==
    {<<"a">>, <<>>, <<" ", "a">>,
     Rep("a", ParagraphLimit - SentenceMin) \o <<".">> \o Rep("a", SentenceMin + 1),
     Rep("a", ParagraphLimit) \o <<".", "a">>}

RECURSIVE join_paragraphs(_)
join_paragraphs(paragraphs) ==
    IF Len(paragraphs) = 0 THEN <<>>
    ELSE IF Len(paragraphs) = 1 THEN paragraphs[1]
    ELSE paragraphs[1] \o <<"\n", "\n">> \o join_paragraphs(Tail(paragraphs))

ParagraphTexts ==
    {join_paragraphs(paragraphs) :
        paragraphs \in UNION {[1..k -> Paragraphs] : k \in 0..MaxParagraphs}}

InitParagraphs ==
    /\ \E text \in ParagraphTexts :
          /\ rg = [text |-> text, chunks |-> <<>>, pc |-> "call"]
          /\ svc = [backend |-> "chroma", texts |-> {text}, queries |-> {},
                    max_top_k |-> 0]
    /\ ck = IdleCall
    /\ cc = IdleCall
    /\ collection = {}
    /\ knowledge_documents = {}
    /\ content_chunks = {}
    /\ documents = {}
    /\ document_chunks = {}
    /\ proc = <<>>
    /\ next_uuid = 1
    /\ last = [op |-> "none"]

NextParagraphs == rag_chunk_text_call \/ ch_process_document \/ Return

SpecParagraphs == InitParagraphs /\ [][NextParagraphs]_vars

\* Either application, empty, with the documents of DocTexts to ingest.
Init ==
    /\ ck = IdleCall
    /\ cc = IdleCall
    /\ rg = IdleCall
    /\ collection = {}
    /\ knowledge_documents = {}
    /\ content_chunks = {}
    /\ documents = {}
    /\ document_chunks = {}
    /\ proc = <<>>
    /\ \/ svc = [backend |-> "chroma", texts |-> DocTexts, queries |-> Queries,
                 max_top_k |-> MaxTopK]
       \/ \E config \in SvcConfigs :
             svc = [backend |-> "supabase", texts |-> DocTexts,
                    chunk_size |-> config[1], chunk_overlap |-> config[2],
                    insert_faults |-> FALSE, api_key |-> TRUE]
    /\ next_uuid = 1
    /\ last = [op |-> "none"]

Next ==
    \/ ch_process_document
    \/ ch_search_call
    \/ ch_delete_document
    \/ sb_process_document
    \/ sb_search_call
    \/ sb_delete_document
    \/ Return

Spec == Init /\ [][Next]_vars

\* voiceloop-backend searched with a top_k whose halves hold two results
\* each, so that several chunks of one document are candidates at once.
MergeTopK == 4      \* largest top_k of these searches

InitMerge ==
    /\ ck = IdleCall
    /\ cc = IdleCall
    /\ rg = IdleCall
    /\ collection = {}
    /\ knowledge_documents = {}
    /\ content_chunks = {}
    /\ documents = {}
    /\ document_chunks = {}
    /\ proc = <<>>
    /\ svc = [backend |-> "chroma", texts |-> DocTexts, queries |-> {<<"a", "b", "c">>},
              max_top_k |-> MergeTopK]
    /\ next_uuid = 1
    /\ last = [op |-> "none"]

NextMerge == ch_process_document \/ ch_search_call \/ Return

SpecMerge == InitMerge /\ [][NextMerge]_vars

(***************************************************************************)
(* _hybrid_search of voiceloop-backend on what the collection answers.     *)
(* The two answers of collection.query are inputs: each lists rows of      *)
(* different documents, nearest first, at distances that differ.  Document *)
(* d was created on day d - 1; the two documents differ in their text.     *)
(***************************************************************************)
MaxReply == 2       \* rows in one answer of the collection

ReplyDistances == {0, 250, 500}

ReplyDocs == 1..2

ReplyRow(doc_id, distance) ==
    [id |-> <<doc_id, 0>>,
     document |-> IF doc_id = 1 THEN <<"a", "b", "c">> ELSE <<"a", "b", "d">>,
     metadata |-> [document_id |-> doc_id, user_id |-> "A", chunk_index |-> 0,
                   start_position |-> 0, end_position |-> 3,
                   chunk_type |-> "paragraph", category |-> DefaultCategory,
                   created_timestamp |-> doc_id - 1],
     distance |-> distance]

Replies ==
    {reply \in UNION {[1..n -> {ReplyRow(d, dist) : d \in ReplyDocs,
                                                    dist \in ReplyDistances}] :
                        n \in 0..MaxReply} :
        \A i, j \in DOMAIN reply :
            i < j => /\ reply[i].distance < reply[j].distance
                     /\ reply[i].id # reply[j].id}

ReplyDays == {1, RecencyDays}

\* _hybrid_search(query, query_embedding, filters, top_k) given the answers
\* of the two collection.query calls.
ch_hybrid_search_replies ==
    /\ svc.backend = "replies"
    /\ last.op = "none"
    /\ \E semantic_reply \in Replies, keyword_reply \in Replies,
          top_k \in {2 * MaxReply, 2 * MaxReply + 1}, now \in ReplyDays :
          last' = [op |-> "ch_hybrid_search", query |-> <<"x", "y">>,
                   top_k |-> top_k, now |-> now,
                   semantic_reply |-> semantic_reply, keyword_reply |-> keyword_reply,
                   semantic_results |-> format_chroma_results(semantic_reply),
                   keyword_results |-> format_chroma_results(keyword_reply),
                   ret |-> hybrid_merge(<<"x", "y">>,
                                        format_chroma_results(semantic_reply),
                                        format_chroma_results(keyword_reply),
                                        top_k, now)]
    /\ UNCHANGED <<upload_tables, proc, ck, cc, rg, collection, knowledge_documents,
                   content_chunks, svc, next_uuid>>

InitReplies ==
    /\ ck = IdleCall
    /\ cc = IdleCall
    /\ rg = IdleCall
    /\ collection = {}
    /\ knowledge_documents = {}
    /\ content_chunks = {}
    /\ documents = {}
    /\ document_chunks = {}
    /\ proc = <<>>
    /\ svc = [backend |-> "replies"]
    /\ next_uuid = 1
    /\ last = [op |-> "none"]

NextReplies == ch_hybrid_search_replies \/ Return

SpecReplies == InitReplies /\ [][NextReplies]_vars

\* _extract_key_terms on its own: the query is a line of up to MaxWords
\* words of Vocabulary, a stop word, a word of two characters and words in
\* both cases among them, separated by single spaces.
MaxWords == 6

Vocabulary == {<<"t", "h", "e">>, <<"a", "b">>, <<"a", "b", "c">>, <<"A", "b", "c">>,
               <<"x", "y", "x">>}

RECURSIVE join_words(_)
join_words(words) ==
    IF Len(words) = 0 THEN <<>>
    ELSE IF Len(words) = 1 THEN words[1]
    ELSE words[1] \o <<" ">> \o join_words(Tail(words))

TermQueries == {join_words(words) : words \in UNION {[1..k -> Vocabulary] : k \in 0..MaxWords}}

extract_key_terms_call ==
    /\ svc.backend = "terms"
    /\ last.op = "none"
    /\ last' = [op |-> "extract_key_terms", query |-> svc.query,
                ret |-> extract_key_terms(svc.query)]
    /\ UNCHANGED <<upload_tables, proc, ck, cc, rg, collection, knowledge_documents,
                   content_chunks, svc, next_uuid>>

InitTerms ==
    /\ ck = IdleCall
    /\ cc = IdleCall
    /\ rg = IdleCall
    /\ collection = {}
    /\ knowledge_documents = {}
    /\ content_chunks = {}
    /\ documents = {}
    /\ document_chunks = {}
    /\ proc = <<>>
    /\ \E query \in TermQueries : svc = [backend |-> "terms", query |-> query]
    /\ next_uuid = 1
    /\ last = [op |-> "none"]

NextTerms == extract_key_terms_call \/ Return

SpecTerms == InitTerms /\ [][NextTerms]_vars

\* voiceloop-backend with a document of more paragraphs than one
\* delete_document query returns.
BulkText == ConcatRange([i \in 1..(DeleteQueryLimit + 1) |-> <<"a", "\n", "\n">>],
                        1, DeleteQueryLimit + 1)

InitBulk ==
    /\ ck = IdleCall
    /\ cc = IdleCall
    /\ rg = IdleCall
    /\ collection = {}
    /\ knowledge_documents = {}
    /\ content_chunks = {}
    /\ documents = {}
    /\ document_chunks = {}
    /\ proc = <<>>
    /\ svc = [backend |-> "chroma", texts |-> {BulkText, <<"a", "b", "c">>}]
    /\ next_uuid = 1
    /\ last = [op |-> "none"]

NextBulk == ch_process_document \/ ch_delete_document \/ Return

SpecBulk == InitBulk /\ [][NextBulk]_vars

\* The unified backend on a database whose inserts may fail, with an
\* embedding provider that may fail or have no key configured.
InitIngest ==
    /\ ck = IdleCall
    /\ cc = IdleCall
    /\ rg = IdleCall
    /\ collection = {}
    /\ knowledge_documents = {}
    /\ content_chunks = {}
    /\ documents = {}
    /\ document_chunks = {}
    /\ proc = <<>>
    /\ \E config \in SvcConfigs, api_key \in BOOLEAN :
          svc = [backend |-> "supabase", texts |-> DocTexts,
                 chunk_size |-> config[1], chunk_overlap |-> config[2],
                 insert_faults |-> TRUE, api_key |-> api_key]
    /\ next_uuid = 1
    /\ last = [op |-> "none"]

NextIngest == sb_process_document \/ upload_decision \/ sb_delete_document \/ Return

SpecIngest == InitIngest /\ [][NextIngest]_vars

(***************************************************************************)
(* The file upload service: upload_file for a PDF or DOCX whose extracted  *)
(* text is given.  The text is chunked with chunk_text's defaults, the     *)
(* chunks are embedded, the document row and the chunk rows are stored.    *)
(***************************************************************************)
ChunkSizeDefault == 1000
OverlapDefault == 200

\* chunk_text(text, chunk_size, overlap): the while loop run to its end.
RECURSIVE chunk_text_run(_, _, _, _)
chunk_text_run(text, chunk_size, overlap, st) ==
    IF st.pc = "done" THEN st.chunks
    ELSE chunk_text_run(text, chunk_size, overlap,
                        chunk_text_body(text, chunk_size, overlap, st))

chunk_text(text, chunk_size, overlap) ==
    chunk_text_run(text, chunk_size, overlap, chunk_text_entry(text))

\* client.embeddings.create(model, input).data[0].embedding: the provider is
\* a collaborator; its vector is known by the input it was computed from.
embedding_create(input) == [input |-> input]

\* The chunks generate_embeddings sends to the provider: `if chunk.strip()`.
embedded_chunks(text_chunks) == SelectSeq(text_chunks, LAMBDA chunk : strip(chunk) # <<>>)

generate_embeddings_of(called, fail_at) ==
    IF fail_at \in 1..Len(called) THEN <<>>
    ELSE [i \in 1..Len(called) |->
            [text |-> called[i], embedding |-> embedding_create(called[i])]]

\* generate_embeddings(text_chunks); the provider call number fail_at raises
\* (0: none does), and the except clause returns [].
generate_embeddings(text_chunks, fail_at) ==
    generate_embeddings_of(embedded_chunks(text_chunks), fail_at)

\* SupabaseRAG.store_chunks: the rows built from zip(chunks, embeddings).
store_chunks(document_id, chunks, embeddings) ==
    {[document_id      |-> document_id,
      chunk_index      |-> i - 1,
      text_content     |-> chunks[i].text,
      embedding_vector |-> embeddings[i]] :
        i \in 1..Min(Len(chunks), Len(embeddings))}

upload_store(text, fail_at, chunks, embeddings) ==
    LET document_id == next_uuid
        chunk_data == [i \in 1..Len(chunks) |-> [text |-> chunks[i]]]
        embedding_vectors == [i \in 1..Len(embeddings) |-> embeddings[i].embedding]
    IN  /\ documents' = documents \cup
              {[id |-> document_id, file_size |-> Len(text),
                total_chunks |-> Len(chunk_data)]}
        /\ document_chunks' = document_chunks \cup
              store_chunks(document_id, chunk_data, embedding_vectors)
        /\ next_uuid' = next_uuid + 1
        /\ last' = [op |-> "upload_file", text |-> text, fail_at |-> fail_at,
                    chunks |-> chunks,
                    ret |-> [success |-> TRUE,
                             data |-> [id |-> document_id,
                                       text_length |-> Len(text),
                                       chunks_count |-> Len(chunks),
                                       embeddings_count |-> Len(embeddings)]]]

upload_chunks(text, chunks) ==
    \E fail_at \in 0..Len(embedded_chunks(chunks)) :
        upload_store(text, fail_at, chunks, generate_embeddings(chunks, fail_at))

upload_file ==
    /\ svc.backend = "upload"
    /\ last.op = "none"
    /\ next_uuid <= MaxDocs
    /\ \E text \in svc.texts :
          upload_chunks(text, chunk_text(text, ChunkSizeDefault, OverlapDefault))
    /\ UNCHANGED <<proc, ck, cc, rg, collection, knowledge_documents, content_chunks, svc>>

\* Extracted texts around the default window: one chunk, two chunks, a
\* window of blanks before the words, a window of blanks after them.
UploadTexts ==
    {<<>>,
     <<"a", "b", "c">>,
     Rep("a", ChunkSizeDefault) \o <<"b", "c">>,
     Rep(" ", ChunkSizeDefault) \o <<"a", "b", "c">>,
     Rep("a", ChunkSizeDefault) \o Rep(" ", ChunkSizeDefault)}

InitUpload ==
    /\ ck = IdleCall
    /\ cc = IdleCall
    /\ rg = IdleCall
    /\ collection = {}
    /\ knowledge_documents = {}
    /\ content_chunks = {}
    /\ documents = {}
    /\ document_chunks = {}
    /\ proc = <<>>
    /\ svc = [backend |-> "upload", texts |-> UploadTexts]
    /\ next_uuid = 1
    /\ last = [op |-> "none"]

NextUpload == upload_file \/ Return

SpecUpload == InitUpload /\ [][NextUpload]_vars

(***************************************************************************)
(* Concurrent process_document calls.  Each call has its own locals        *)
(* (doc_id, chunks, i); the calls share the database and interleave        *)
(* between its round trips.  No insert fails here.                         *)
(***************************************************************************)
MaxProcs == 2       \* process_document calls running at once

Procs == 1..MaxProcs

ProcStart(user_id, content) ==
    [pc |-> "start", user_id |-> user_id, content |-> content,
     doc_id |-> 0, chunks |-> <<>>, i |-> 0]

\* A variant that numbers a chunk by the rows the table holds.
sb_chunk_row_numbered_by_table(doc_id, i, chunk) ==
    [id |-> <<doc_id, i>>, document_id |-> doc_id,
     chunk_index |-> Cardinality(content_chunks), content |-> chunk,
     embedding |-> generate_embedding(chunk, svc.api_key, FALSE)]

\* Unified backend: chunk_data of process_document for chunk i of doc_id.
sb_chunk_row(doc_id, i, chunk) ==
    [id |-> <<doc_id, i>>, document_id |-> doc_id, chunk_index |-> i, content |-> chunk,
     embedding |-> generate_embedding(chunk, svc.api_key, FALSE)]

\* The insert into knowledge_documents, then chunks = self._chunk_content(content).
sb_insert_document(p) ==
    /\ svc.backend = "supabase"
    /\ proc[p].pc = "start"
    /\ knowledge_documents' = knowledge_documents \cup
          {[id |-> next_uuid, user_id |-> proc[p].user_id, content |-> proc[p].content]}
    /\ proc' = [proc EXCEPT ![p] =
                  [@ EXCEPT !.pc = "chunks", !.doc_id = next_uuid,
                            !.chunks = chunk_content(proc[p].content, svc.chunk_size,
                                                     svc.chunk_overlap)]]
    /\ next_uuid' = next_uuid + 1
    /\ UNCHANGED <<upload_tables, ck, cc, rg, collection, content_chunks, svc, last>>

\* One pass of `for i, chunk in enumerate(chunks)`: the insert of chunk i.
\* Where the tables carry the foreign key of ContentChunk.document_id, the
\* insert is refused once the document row is gone, and the call returns
\* False (pc "failed").
sb_insert_chunk(p) ==
    /\ svc.backend = "supabase"
    /\ proc[p].pc = "chunks"
    /\ proc[p].i < Len(proc[p].chunks)
    /\ IF svc.foreign_key /\ table_eq(knowledge_documents, "id", proc[p].doc_id) = {}
       THEN /\ content_chunks' = content_chunks
            /\ proc' = [proc EXCEPT ![p] = [@ EXCEPT !.pc = "failed"]]
       ELSE /\ content_chunks' = content_chunks \cup
                  {sb_chunk_row(proc[p].doc_id, proc[p].i, proc[p].chunks[proc[p].i + 1])}
            /\ proc' = [proc EXCEPT ![p] = [@ EXCEPT !.i = proc[p].i + 1]]
    /\ UNCHANGED <<upload_tables, ck, cc, rg, collection, knowledge_documents, svc,
                   next_uuid, last>>

\* return True
sb_return(p) ==
    /\ svc.backend = "supabase"
    /\ proc[p].pc = "chunks"
    /\ proc[p].i = Len(proc[p].chunks)
    /\ proc' = [proc EXCEPT ![p] = [@ EXCEPT !.pc = "done"]]
    /\ UNCHANGED <<upload_tables, ck, cc, rg, collection, knowledge_documents,
                   content_chunks, svc, next_uuid, last>>

\* voiceloop-backend: doc_id = str(uuid.uuid4()) and the three local lists.
ch_build_chunks(p) ==
    /\ svc.backend = "chroma"
    /\ proc[p].pc = "start"
    /\ proc' = [proc EXCEPT ![p] = [@ EXCEPT !.pc = "add", !.doc_id = next_uuid]]
    /\ next_uuid' = next_uuid + 1
    /\ UNCHANGED <<upload_tables, ck, cc, rg, collection, knowledge_documents,
                   content_chunks, svc, last>>

\* self.collection.add(ids, documents, metadatas); return doc_id
ch_collection_add(p) ==
    /\ svc.backend = "chroma"
    /\ proc[p].pc = "add"
    /\ collection' = collection \cup
          ch_document_rows(proc[p].doc_id, proc[p].content, proc[p].user_id, 0)
    /\ proc' = [proc EXCEPT ![p] = [@ EXCEPT !.pc = "done"]]
    /\ UNCHANGED <<upload_tables, ck, cc, rg, knowledge_documents, content_chunks,
                   svc, next_uuid, last>>

\* The documents of the concurrent calls: one of one paragraph, one of two.
ConcurrentTexts == {<<"a", "b", "c">>, <<"x", "\n", "\n", "y">>}

InitConcurrent ==
    /\ ck = IdleCall
    /\ cc = IdleCall
    /\ rg = IdleCall
    /\ collection = {}
    /\ knowledge_documents = {}
    /\ content_chunks = {}
    /\ documents = {}
    /\ document_chunks = {}
    /\ \/ svc = [backend |-> "chroma", texts |-> ConcurrentTexts]
       \/ \E config \in SvcConfigs :
             svc = [backend |-> "supabase", texts |-> ConcurrentTexts,
                    chunk_size |-> config[1], chunk_overlap |-> config[2],
                    insert_faults |-> FALSE, api_key |-> TRUE, foreign_key |-> TRUE]
    /\ proc \in [Procs -> {ProcStart(user_id, content) :
                              user_id \in Users, content \in ConcurrentTexts}]
    /\ next_uuid = 1
    /\ last = [op |-> "none"]

NextConcurrent ==
    \E p \in Procs :
        \/ sb_insert_document(p)
        \/ sb_insert_chunk(p)
        \/ sb_return(p)
        \/ ch_build_chunks(p)
        \/ ch_collection_add(p)

SpecConcurrent == InitConcurrent /\ [][NextConcurrent]_vars

(***************************************************************************)
(* A process_document call (proc[1]) and a delete_document call (proc[2])  *)
(* for the document it creates, made by its owner once the document row    *)
(* can be seen.  The calls interleave between their round trips to the     *)
(* database.  svc.foreign_key says whether the tables carry the foreign    *)
(* key from content_chunks.document_id to knowledge_documents.id that the  *)
(* models declare (without ON DELETE); where they do, a document row with  *)
(* chunk rows cannot be deleted and the delete call returns False.         *)
(***************************************************************************)
\* self.supabase.table('content_chunks').delete().eq('document_id', document_id)
sb_delete_chunks(p) ==
    /\ svc.backend = "supabase"
    /\ proc[p].pc = "delete"
    /\ table_eq(knowledge_documents, "id", proc[p].document_id) # {}
    /\ content_chunks' = content_chunks
                            \ table_eq(content_chunks, "document_id", proc[p].document_id)
    /\ proc' = [proc EXCEPT ![p] = [@ EXCEPT !.pc = "delete_document"]]
    /\ UNCHANGED <<upload_tables, ck, cc, rg, collection, knowledge_documents, svc,
                   next_uuid, last>>

\* self.supabase.table('knowledge_documents').delete().eq('id', ..).eq('user_id', ..)
\* and the return.
sb_delete_document_row(p) ==
    /\ svc.backend = "supabase"
    /\ proc[p].pc = "delete_document"
    /\ IF svc.foreign_key
          /\ table_eq(content_chunks, "document_id", proc[p].document_id) # {}
       THEN /\ knowledge_documents' = knowledge_documents
            /\ proc' = [proc EXCEPT ![p] = [@ EXCEPT !.pc = "failed"]]
       ELSE /\ knowledge_documents' = knowledge_documents
                  \ table_eq(table_eq(knowledge_documents, "id", proc[p].document_id),
                             "user_id", proc[p].user_id)
            /\ proc' = [proc EXCEPT ![p] = [@ EXCEPT !.pc = "done"]]
    /\ UNCHANGED <<upload_tables, ck, cc, rg, collection, content_chunks, svc,
                   next_uuid, last>>

InitRace ==
    /\ ck = IdleCall
    /\ cc = IdleCall
    /\ rg = IdleCall
    /\ collection = {}
    /\ knowledge_documents = {}
    /\ content_chunks = {}
    /\ documents = {}
    /\ document_chunks = {}
    /\ \E config \in SvcConfigs, foreign_key \in BOOLEAN :
          svc = [backend |-> "supabase", texts |-> ConcurrentTexts,
                 chunk_size |-> config[1], chunk_overlap |-> config[2],
                 insert_faults |-> FALSE, api_key |-> TRUE, foreign_key |-> foreign_key]
    /\ next_uuid = 1
    /\ \E user_id \in Users, content \in ConcurrentTexts :
          proc = <<ProcStart(user_id, content),
                   [pc |-> "delete", user_id |-> user_id, document_id |-> next_uuid]>>
    /\ last = [op |-> "none"]

NextRace ==
    \/ sb_insert_document(1)
    \/ sb_insert_chunk(1)
    \/ sb_return(1)
    \/ sb_delete_chunks(2)
    \/ sb_delete_document_row(2)

SpecRace == InitRace /\ [][NextRace]_vars


(***************************************************************************)
(* Properties.                                                             *)
(***************************************************************************)
IsSearch == last.op \in {"ch_search", "sb_search"}

\* C1: every chunk a search returns belongs to the user_id of the call,
\* whatever the search type and whatever the filters, a filter that names
\* user_id included.
C1_OwnerIsolation ==
    last.op = "ch_search" =>
        \A i \in 1..Len(last.ret) : last.ret[i].metadata.user_id = last.user_id

\* C2: delete_document called by a user who does not own the document
\* leaves every document row and every chunk row as it was.
NotOwnedBy(document_id, user_id) ==
    \/ \E d \in knowledge_documents : d.id = document_id /\ d.user_id # user_id
    \/ \E r \in collection :
          r.metadata.document_id = document_id /\ r.metadata.user_id # user_id

C2_NonOwnerDeleteChangesNothing ==
    [][(/\ last.op = "none"
        /\ last'.op \in {"ch_delete_document", "sb_delete_document"}
        /\ NotOwnedBy(last'.document_id, last'.user_id))
          => UNCHANGED <<collection, knowledge_documents, content_chunks>>]_vars

\* C3: a user never has two documents of the same content: the second
\* ingestion of a content is refused and adds no document.
C3_OneDocumentPerContent ==
    \A d1 \in knowledge_documents, d2 \in knowledge_documents :
        d1.user_id = d2.user_id /\ d1.content = d2.content => d1.id = d2.id

\* C4: a text no longer than chunk_size (and not blank) is chunked into
\* exactly one chunk, the stripped text.
C4_ShortTextOneChunk ==
    /\ (ck.pc = "done" /\ Len(ck.text) <= ck.chunk_size /\ strip(ck.text) # <<>>)
          => ck.chunks = <<strip(ck.text)>>
    /\ (cc.pc = "done" /\ Len(cc.content) <= cc.chunk_size /\ strip(cc.content) # <<>>)
          => cc.chunks = <<strip(cc.content)>>

\* C5: chunking loses no non-whitespace character: each one occurs in the
\* chunks at least as often as in the text.
Occurrences(c, text) == Cardinality({i \in 1..Len(text) : text[i] = c})

C5_NoCharacterLost ==
    rg.pc = "done" =>
        \A c \in {d \in Alphabet : ~IsSpace(d)} :
            Occurrences(c, rg.text)
                <= SumRange([i \in 1..Len(rg.chunks) |-> Occurrences(c, rg.chunks[i].text)],
                            1, Len(rg.chunks))

\* C6: a hybrid search returns at most limit results and no chunk twice.
C6_HybridBoundedNoDuplicates ==
    (IsSearch /\ last.search_type = "hybrid") =>
        /\ Len(last.ret) <= last.top_k
        /\ \A i \in 1..Len(last.ret), j \in 1..Len(last.ret) :
              i # j => <<last.ret[i].id, last.ret[i].chunk_index>>
                           # <<last.ret[j].id, last.ret[j].chunk_index>>

\* A hybrid search whose semantic and keyword halves found the same chunk.
C6_Witness ==
    /\ last.op = "ch_search"
    /\ last.search_type = "hybrid"
    /\ last.fault = "none"
    /\ Len(last.ret) >= 1
    /\ \E r \in collection :
          /\ Matches(r, search_filters(last.user_id, last.filters))
          /\ \E i \in 1..Len(ch_semantic_search(collection, last.query,
                                                search_filters(last.user_id, last.filters),
                                                last.top_k \div 2, FALSE)) :
                ch_semantic_search(collection, last.query,
                                   search_filters(last.user_id, last.filters),
                                   last.top_k \div 2, FALSE)[i].text = r.document
          /\ \E j \in 1..Len(ch_keyword_search(collection, last.query,
                                               search_filters(last.user_id, last.filters),
                                               last.top_k \div 2, FALSE)) :
                ch_keyword_search(collection, last.query,
                                  search_filters(last.user_id, last.filters),
                                  last.top_k \div 2, FALSE)[j].text = r.document

\* C7: when the vector query of a hybrid search fails and the keyword query
\* works, the response is marked partial.
C7_PartialFlag ==
    (IsSearch /\ last.search_type = "hybrid" /\ last.fault = "vector") =>
        /\ "partial" \in DOMAIN last.response
        /\ last.response.partial = TRUE

\* C8: when both queries of a hybrid search fail, or the query cannot be
\* embedded, the response differs from the response of a search that worked
\* and matched nothing.
NoMatchResponse ==
    IF last.op = "ch_search" THEN [results |-> <<>>, query |-> last.query]
    ELSE [success |-> TRUE, results |-> <<>>, query |-> last.query,
          search_type |-> last.search_type, total_results |-> 0]

C8_UnavailableSignal ==
    (/\ IsSearch
     /\ \/ last.search_type = "hybrid" /\ last.fault = "both"
        \/ last.fault = "encode")
        => last.response # NoMatchResponse

\* C9: when the augmentation raises or answers with something unparsable,
\* the search returns the chunks it found: the same chunks, in the same
\* order.
ChunkKeys(results) ==
    [i \in 1..Len(results) |-> <<results[i].id, results[i].chunk_index, results[i].text>>]

C9_AugmentationFailureKeepsResults ==
    /\ (last.op = "ch_search" /\ last.ai \in {"raise", "unparsable"}) =>
          ChunkKeys(last.ret)
              = ChunkKeys(ch_search_results(collection, last.query, last.user_id,
                                            last.filters, last.top_k, last.search_type,
                                            last.fault, last.now))
    /\ (last.op = "sb_search" /\ last.ai = "raise") =>
          last.ret = sb_search(content_chunks, last.query, last.user_id,
                               last.search_type, last.top_k, last.fault)

\* A search that found two chunks and whose augmentation failed.
C9_Witness ==
    /\ last.op = "ch_search"
    /\ last.ai \in {"raise", "unparsable"}
    /\ Len(last.ret) >= 2

\* C10: after delete_document has returned success, no chunk of that
\* document is left, however many chunks the document had.
C10_DeleteLeavesNoChunk ==
    (last.op = "ch_delete_document" /\ last.ret = TRUE) =>
        \A r \in collection : r.metadata.document_id # last.document_id

\* C11: a semantic search made by a user, with no failure injected and a
\* limit that admits every chunk the user owns, returns every chunk of the
\* user's stored documents, the one just ingested included.
ChunksOwnedBy(user_id) ==
    {c \in content_chunks :
        \E d \in knowledge_documents : d.id = c.document_id /\ d.user_id = user_id}

RowsOwnedBy(user_id) == {r \in collection : r.metadata.user_id = user_id}

C11_ReadYourWrite ==
    /\ (/\ last.op = "sb_search"
        /\ last.search_type = "semantic"
        /\ last.fault = "none"
        /\ last.top_k >= Cardinality(ChunksOwnedBy(last.user_id)))
          => \A c \in ChunksOwnedBy(last.user_id) :
                \E i \in 1..Len(last.ret) : last.ret[i].id = c.id
    /\ (/\ last.op = "ch_search"
        /\ last.search_type = "semantic"
        /\ last.fault = "none"
        /\ last.filters = NoFilters
        /\ last.top_k >= Cardinality(RowsOwnedBy(last.user_id)))
          => \A r \in RowsOwnedBy(last.user_id) :
                \E i \in 1..Len(last.ret) :
                    /\ last.ret[i].id = r.metadata.document_id
                    /\ last.ret[i].chunk_index = r.metadata.chunk_index

\* C12: every chunk row stored by an upload holds, under chunk_index i, the
\* text of the i-th chunk the chunker produced and the embedding computed
\* from that text.
C12_RowsHoldOwnEmbedding ==
    last.op = "upload_file" =>
        \A row \in document_chunks :
            row.document_id = last.ret.data.id =>
                /\ row.chunk_index + 1 \in 1..Len(last.chunks)
                /\ row.text_content = last.chunks[row.chunk_index + 1]
                /\ row.embedding_vector = embedding_create(row.text_content)

\* C13: under every interleaving of concurrent process_document calls, the
\* stored chunks of each document carry the indexes 0, 1, ... without gap or
\* duplicate, each with the chunk the chunker produced at that index; every
\* stored chunk belongs to the document of the call that wrote it; a call
\* that has returned has stored all n chunks of its document.
IndexesOf(rows) == {r.chunk_index : r \in rows}

SbChunksOfCall(p) == {c \in content_chunks : c.document_id = proc[p].doc_id}

ChRowsOfCall(p) == {r \in collection : r.metadata.document_id = proc[p].doc_id}

C13_Supabase(p, chunks, rows) ==
    /\ \A c \in rows : /\ c.chunk_index \in 0..(Len(chunks) - 1)
                       /\ c.content = chunks[c.chunk_index + 1]
    /\ \A c1, c2 \in rows : c1.chunk_index = c2.chunk_index => c1 = c2
    /\ IndexesOf(rows) = 0..(Cardinality(rows) - 1)
    /\ proc[p].pc = "done" => IndexesOf(rows) = 0..(Len(chunks) - 1)

C13_Chroma(p, chunks, rows) ==
    /\ \A r \in rows : /\ r.metadata.chunk_index \in 0..(Len(chunks) - 1)
                       /\ r.document = chunks[r.metadata.chunk_index + 1].text
                       /\ r.metadata.user_id = proc[p].user_id
    /\ \A r1, r2 \in rows :
          r1.metadata.chunk_index = r2.metadata.chunk_index => r1 = r2
    /\ proc[p].pc = "done" =>
          {r.metadata.chunk_index : r \in rows} = 0..(Len(chunks) - 1)

C13_ChunkIndexesLocal ==
    /\ \A p \in DOMAIN proc :
          IF svc.backend = "supabase"
          THEN C13_Supabase(p, chunk_content(proc[p].content, svc.chunk_size,
                                             svc.chunk_overlap),
                            SbChunksOfCall(p))
          ELSE C13_Chroma(p, rag_chunk_text(proc[p].content), ChRowsOfCall(p))
    /\ DOMAIN proc # {} =>
          /\ \A c \in content_chunks :
                \E p \in DOMAIN proc : proc[p].pc # "start" /\ c.document_id = proc[p].doc_id
          /\ \A r \in collection :
                \E p \in DOMAIN proc :
                    proc[p].pc = "done" /\ r.metadata.document_id = proc[p].doc_id

\* A call has run from its document insert to its return, several chunks
\* stored, while a call that inserted its document earlier is still between
\* two of its chunk inserts.
C13_Witness ==
    /\ svc.backend = "supabase"
    /\ \E p, q \in DOMAIN proc :
          /\ proc[p].pc = "done"
          /\ Len(proc[p].chunks) >= 2
          /\ proc[q].pc = "chunks"
          /\ proc[q].doc_id < proc[p].doc_id
          /\ proc[q].i >= 1
          /\ proc[q].i < Len(proc[q].chunks)

\* C14: an ingestion that returned success stored no placeholder vector.
\* Neither a content_chunks row nor the boolean process_document returns
\* carries a mark that a vector is a placeholder, so a placeholder stored by
\* a successful ingestion is an unflagged one.
C14_NoUnflaggedPlaceholder ==
    (last.op = "sb_process_document" /\ last.ret) =>
        \A c \in content_chunks :
            c.document_id = last.doc_id => c.embedding # hash_embedding(c.content)

\* C15: when a save has stored the document and all its chunks, the
\* document_id it returns is the id of the document row it stored, with the
\* content and the owner of the request.
C15_ReturnedIdAddressesDocument ==
    (/\ last.op = "upload_decision"
     /\ last.ret.success
     /\ last.fail_at = Len(chunk_content(last.content, svc.chunk_size, svc.chunk_overlap)))
      =>
        \E d \in knowledge_documents :
            /\ d.id = last.ret.document_id
            /\ d.content = last.content
            /\ d.user_id = last.user_id

\* C16: a hybrid search with room for a result from each half, over chunks
\* of the caller of which some contain the query text and some do not, ranks
\* a chunk that contains the query text first.
ContainsQuery(query, text) == IsSubstring(lower_text(query), lower_text(text))

MixedFor(query, texts) ==
    /\ \E t \in texts : ContainsQuery(query, t)
    /\ \E t \in texts : ~ContainsQuery(query, t)

C16_Supabase ==
    (/\ last.op = "sb_search"
     /\ last.search_type = "hybrid"
     /\ last.fault = "none"
     /\ last.top_k >= 2
     /\ MixedFor(last.query, {c.content : c \in ChunksOwnedBy(last.user_id)}))
      => /\ Len(last.ret) >= 1
         /\ ContainsQuery(last.query, last.ret[1].content)

C16_Chroma ==
    (/\ last.op = "ch_search"
     /\ last.search_type = "hybrid"
     /\ last.fault = "none"
     /\ last.filters = NoFilters
     /\ last.top_k >= 2
     /\ MixedFor(last.query, {r.document : r \in RowsOwnedBy(last.user_id)}))
      => /\ Len(last.ret) >= 1
         /\ ContainsQuery(last.query, last.ret[1].text)

C16_MatchingChunkRanksFirst == C16_Supabase /\ C16_Chroma

\* C17: every chunk of chunk_text whose chunk_size window stops short of the
\* end of the text (so that another chunk follows) ends just after the last
\* '.' or newline of the window when that boundary lies more than
\* chunk_size/2 characters beyond the chunk's start, and exactly chunk_size
\* characters after its start otherwise.
RuleEnd(text, start, chunk_size) ==
    LET window == Slice(text, start, start + chunk_size)
        boundary == Max(rfind(window, "."), rfind(window, "\n"))
    IN  IF boundary >= 0 /\ 2 * boundary > chunk_size
        THEN start + boundary + 1
        ELSE start + chunk_size

C17_BreakPointRule ==
    ck.pc \in {"loop", "done"} =>
        \A k \in 1..Len(ck.ranges) :
            ck.ranges[k][1] + ck.chunk_size < Len(ck.text) =>
                ck.ranges[k][2] = RuleEnd(ck.text, ck.ranges[k][1], ck.chunk_size)

\* C18: every chunk the windowed chunkers return is non-empty and neither
\* begins nor ends with whitespace, whatever the text.
Trimmed(chunk) ==
    /\ chunk # <<>>
    /\ ~IsSpace(chunk[1])
    /\ ~IsSpace(chunk[Len(chunk)])

C18_ChunksTrimmedNonEmpty ==
    /\ ck.pc = "done" => \A k \in 1..Len(ck.chunks) : Trimmed(ck.chunks[k])
    /\ cc.pc = "done" => \A k \in 1..Len(cc.chunks) : Trimmed(cc.chunks[k])

\* C19: with 0 <= overlap < chunk_size, every chunk of the windowed chunkers
\* has at most chunk_size characters, two consecutive chunks are cut from
\* ranges of the text that share at most overlap characters, and a text
\* longer than chunk_size gives at least two chunks.
SharedChars(text, r1, r2) ==
    Cardinality({i \in 0..(Len(text) - 1) :
                    /\ r1[1] <= i /\ i < r1[2]
                    /\ r2[1] <= i /\ i < r2[2]})

\* _chunk_content keeps no ranges: chunk k is the window that starts
\* (k - 1) * (chunk_size - chunk_overlap) characters into the content.
WindowOf(k, chunk_size, chunk_overlap) ==
    <<(k - 1) * (chunk_size - chunk_overlap),
      (k - 1) * (chunk_size - chunk_overlap) + chunk_size>>

C19_ChunkText ==
    /\ \A k \in 1..Len(ck.chunks) :
          /\ Len(ck.chunks[k]) <= ck.chunk_size
          /\ ck.chunks[k] = strip(Slice(ck.text, ck.ranges[k][1], ck.ranges[k][2]))
    /\ \A k \in 1..(Len(ck.chunks) - 1) :
          SharedChars(ck.text, ck.ranges[k], ck.ranges[k + 1]) <= ck.overlap
    /\ (ck.pc = "done" /\ Len(ck.text) > ck.chunk_size) => Len(ck.chunks) >= 2

C19_ChunkContent ==
    cc.pc = "done" =>
        /\ \A k \in 1..Len(cc.chunks) :
              /\ Len(cc.chunks[k]) <= cc.chunk_size
              /\ cc.chunks[k] = Slice(cc.content,
                                      WindowOf(k, cc.chunk_size, cc.chunk_overlap)[1],
                                      WindowOf(k, cc.chunk_size, cc.chunk_overlap)[2])
        /\ \A k \in 1..(Len(cc.chunks) - 1) :
              SharedChars(cc.content, WindowOf(k, cc.chunk_size, cc.chunk_overlap),
                          WindowOf(k + 1, cc.chunk_size, cc.chunk_overlap))
                 <= cc.chunk_overlap
        /\ Len(cc.content) > cc.chunk_size => Len(cc.chunks) >= 2

C19_SizeOverlapCount ==
    (ck.pc \in {"loop", "done"} /\ cc.pc \in {"call", "done"}) =>
        C19_ChunkText /\ C19_ChunkContent

\* Both chunkers have returned for a text longer than chunk_size, with an
\* overlap, chunk_text having cut one chunk short at a sentence end.
C19_Witness ==
    /\ ck.pc = "done"
    /\ cc.pc = "done"
    /\ Len(ck.text) > ck.chunk_size
    /\ ck.overlap >= 1
    /\ Len(ck.chunks) >= 3
    /\ Len(cc.chunks) >= 3
    /\ \E k \in 1..(Len(ck.ranges) - 1) :
          ck.ranges[k][2] - ck.ranges[k][1] < ck.chunk_size

\* C20: the merge of a hybrid search removes an entry only in favour of an
\* entry for the same chunk: every chunk among the semantic and the keyword
\* candidates is in the result, with a raw score at least that of each of
\* its candidates.
ChunkKey(result) == <<result.id, result.chunk_index>>

ChCandidates(filters) ==
    ch_semantic_search(collection, last.query, filters, last.top_k \div 2, FALSE)
        \o ch_keyword_search(collection, last.query, filters, last.top_k \div 2, FALSE)

SbCandidates ==
    sb_semantic_search(content_chunks, last.query, last.user_id, last.top_k \div 2, FALSE)
        \o sb_keyword_search(content_chunks, last.query, last.user_id,
                             last.top_k \div 2, FALSE)

C20_Chroma(candidates) ==
    \A k \in 1..Len(candidates) :
        \E i \in 1..Len(last.ret) :
            /\ ChunkKey(last.ret[i]) = ChunkKey(candidates[k])
            /\ last.ret[i].relevance_score >= candidates[k].relevance_score

C20_Supabase(candidates) ==
    \A k \in 1..Len(candidates) :
        \E i \in 1..Len(last.ret) :
            /\ last.ret[i].id = candidates[k].id
            /\ last.ret[i].similarity_score >= candidates[k].similarity_score

C20_MergeByChunkId ==
    /\ (last.op = "ch_search" /\ last.search_type = "hybrid" /\ last.fault = "none")
          => C20_Chroma(ChCandidates(search_filters(last.user_id, last.filters)))
    /\ (last.op = "sb_search" /\ last.search_type = "hybrid" /\ last.fault = "none")
          => C20_Supabase(SbCandidates)

\* C21: a hybrid search with top_k >= 1 asks each index for at least one
\* candidate: over a collection that holds a chunk of the caller, with no
\* failure, the semantic index answers and the result is not empty.
C21_HybridAsksEachIndex ==
    (/\ last.op = "ch_search"
     /\ last.search_type = "hybrid"
     /\ last.fault = "none"
     /\ last.filters = NoFilters
     /\ last.top_k >= 1
     /\ RowsOwnedBy(last.user_id) # {})
      => Len(last.ret) >= 1

\* C22: the results of a hybrid search are in descending order of final
\* score; of two results with the same final score one recalled by the
\* semantic index does not come after one recalled by the keyword index
\* only, and of two still tied the one created earlier comes first.
RecalledBySemantic(result) ==
    \E k \in 1..Len(last.semantic_results) : last.semantic_results[k].id = result.id

C22_Ordered(ret) ==
    \A i, j \in 1..Len(ret) :
        i < j =>
            /\ ret[i].final_score >= ret[j].final_score
            /\ ret[i].final_score = ret[j].final_score =>
                  /\ RecalledBySemantic(ret[j]) => RecalledBySemantic(ret[i])
                  /\ (RecalledBySemantic(ret[i]) <=> RecalledBySemantic(ret[j])) =>
                        ret[i].metadata.created_timestamp
                            <= ret[j].metadata.created_timestamp

C22_RankOrder == last.op = "ch_hybrid_search" => C22_Ordered(last.ret)


\* C23: the similarity that enters the composite score lies in 0..1 (0..1000
\* in thousandths) and is monotone in distance: of two rows of one answer of
\* the collection, the one at the smaller distance, an exact match at
\* distance 0 included, never gets the lower relevance_score.
C23_Similarity(reply, results) ==
    /\ \A i \in 1..Len(results) :
          results[i].relevance_score >= 0 /\ results[i].relevance_score <= 1000
    /\ \A i, j \in 1..Len(results) :
          reply[i].distance <= reply[j].distance
             => results[i].relevance_score >= results[j].relevance_score

C23_SimilarityMonotone ==
    last.op = "ch_hybrid_search"
       => /\ C23_Similarity(last.semantic_reply, last.semantic_results)
          /\ C23_Similarity(last.keyword_reply, last.keyword_results)


\* C24: _extract_key_terms returns the first KeyTermLimit distinct terms, in
\* order of first occurrence, among the lowercased word tokens that are not
\* stop words and are longer than 2 characters; so the result has no
\* repeated term.
RECURSIVE first_occurrences(_, _)
first_occurrences(terms, seen) ==
    IF Len(terms) = 0 THEN <<>>
    ELSE IF Head(terms) \in seen THEN first_occurrences(Tail(terms), seen)
    ELSE <<Head(terms)>> \o first_occurrences(Tail(terms), seen \cup {Head(terms)})

C24_Terms(query, ret) ==
    LET kept(term) == term \notin stop_words /\ Len(term) > 2
        distinct_terms == first_occurrences(SelectSeq(word_tokens(query), kept), {})
    IN  /\ ret = Slice(distinct_terms, 0, KeyTermLimit)
        /\ \A i, j \in 1..Len(ret) : i # j => ret[i] # ret[j]

C24_FirstDistinctTerms ==
    last.op = "extract_key_terms" => C24_Terms(last.query, last.ret)


\* C25: the chunks RAGService.chunk_text produces, and the rows
\* process_document stores for them, have start and end offsets that are
\* non-decreasing in chunk index, and the offset ranges of two chunks overlap
\* only when the chunks are adjacent in index.
RangesOverlap(start1, end1, start2, end2) == start1 < end2 /\ start2 < end1

C25_ChunksInOrder(chunks) ==
    \A i, j \in 1..Len(chunks) :
        i < j => /\ chunks[i].start <= chunks[j].start
                 /\ chunks[i].end <= chunks[j].end
                 /\ j > i + 1 => ~RangesOverlap(chunks[i].start, chunks[i].end,
                                                chunks[j].start, chunks[j].end)

C25_RowsInOrder ==
    \A r1, r2 \in collection :
        (r1.metadata.document_id = r2.metadata.document_id
         /\ r1.metadata.chunk_index < r2.metadata.chunk_index)
           => /\ r1.metadata.start_position <= r2.metadata.start_position
              /\ r1.metadata.end_position <= r2.metadata.end_position
              /\ r2.metadata.chunk_index > r1.metadata.chunk_index + 1
                   => ~RangesOverlap(r1.metadata.start_position, r1.metadata.end_position,
                                     r2.metadata.start_position, r2.metadata.end_position)

C25_OffsetsOrdered ==
    /\ rg.pc = "done" => C25_ChunksInOrder(rg.chunks)
    /\ C25_RowsInOrder

\* A document whose chunks are two sentences of a long paragraph followed by
\* a paragraph has been chunked and stored.
C25_Witness ==
    /\ rg.pc = "done"
    /\ Len(rg.chunks) >= 3
    /\ rg.chunks[1].type = "sentence"
    /\ rg.chunks[2].type = "sentence"
    /\ rg.chunks[3].type = "paragraph"
    /\ \E r \in collection : r.metadata.chunk_index = 2 /\ r.metadata.chunk_type = "paragraph"


\* C26: in chunk_text, with chunk_size >= 1 and 0 <= overlap < chunk_size, the
\* loop's start offset strictly increases from one iteration to the next (so
\* the loop ends after at most len(text) chunks): every pass began at a
\* larger start than the pass before it, and leaves start larger than it
\* found it.
C26_StartIncreases ==
    /\ \A i \in 1..(Len(ck.ranges) - 1) : ck.ranges[i][1] < ck.ranges[i + 1][1]
    /\ Len(ck.ranges) >= 1 => ck.ranges[Len(ck.ranges)][1] < ck.start


\* C27: ingestion is all-or-nothing: when process_document has returned
\* failure, the store holds no document row and no chunk row created by
\* that call.
C27_AllOrNothing ==
    (last.op = "sb_process_document" /\ ~last.ret) =>
        /\ \A d \in knowledge_documents : d.id # last.doc_id
        /\ \A c \in content_chunks : c.document_id # last.doc_id

\* C28: a save whose process_document failed (the document row or one of the
\* chunk rows was not stored) is not answered with success.
C28_SuccessOnlyIfStored ==
    (/\ last.op = "upload_decision"
     /\ last.fail_at # Len(chunk_content(last.content, svc.chunk_size, svc.chunk_overlap)))
        => ~last.ret.success


\* C29: the offsets RAGService.chunk_text records locate each chunk in the
\* original text: text[start:end] is the chunk's text.
C29_OffsetsLocateChunk ==
    rg.pc = "done" =>
        \A i \in 1..Len(rg.chunks) :
            Slice(rg.text, rg.chunks[i].start, rg.chunks[i].end) = rg.chunks[i].text


\* C30: once a process_document call and a delete_document call for the
\* document it creates have both returned, however they interleaved, no
\* chunk row is left whose document_id matches no document row, and no
\* document row is left whose ingestion reported success but some of whose
\* chunks are gone.
C30_BothReturned == \A p \in 1..2 : proc[p].pc \in {"done", "failed"}

C30_NoOrphanChunk ==
    \A c \in content_chunks : table_eq(knowledge_documents, "id", c.document_id) # {}

C30_NoLostChunk ==
    (proc[1].pc = "done" /\ table_eq(knowledge_documents, "id", proc[1].doc_id) # {})
        => \A i \in 0..(Len(proc[1].chunks) - 1) :
              \E c \in content_chunks : c.document_id = proc[1].doc_id /\ c.chunk_index = i

C30_DeleteRacesIngestion ==
    C30_BothReturned => (C30_NoOrphanChunk /\ C30_NoLostChunk)

=============================================================================
